---- MODULE Spec2Model ----
\* kube-vault/unsealer, pkg/vault/vault.go: the orchestrator that initialises a
\* vault server and unseals it from shares kept in a key-value keystore.
\*
\* Every keystore or vault call of a handler is one step of the model, because
\* a handler suspends exactly at these calls (another orchestrator instance may
\* act in between).  Each call can fail: the outcome is chosen among the
\* results the collaborator can give.
EXTENDS Integers, Sequences, FiniteSets, TLC

\* ---------------------------------------------------------------- bounds
MaxShares == 2
MaxOps == 3

Procs == {1, 2}
Vaults == Procs
Prefixes == {"prod"}

VARIABLES store, vault, pc, op, cfg, i, k, resp, result, calls, pre, hist, nops

vars == <<store, vault, pc, op, cfg, i, k, resp, result, calls, pre, hist, nops>>

\* ---------------------------------------------------------------- values
NoVal == <<"none", 0, 0>>
Probe == <<"probe", 0, 0>>
Share(v, j) == <<"share", v, j>>
Root(v) == <<"root", v, 0>>

NoKey == <<"", "", 0>>

\* VaultOptions
Configs ==
    { [KeyPrefix |-> kp, SecretShares |-> n, SecretThreshold |-> t,
       OverwriteExisting |-> ow, StoreRootToken |-> rt] :
         kp \in Prefixes, n \in 1..MaxShares, t \in 1..MaxShares,
         ow \in BOOLEAN, rt \in BOOLEAN }

ValidConfigs == { c \in Configs : c.SecretThreshold <= c.SecretShares }

NoCfg ==
    [KeyPrefix |-> "", SecretShares |-> 0, SecretThreshold |-> 0,
     OverwriteExisting |-> FALSE, StoreRootToken |-> FALSE]

\* ---------------------------------------------------------------- key names
\* Mutant: the index is left out of the key name.
unsealKeyForIDNoIndex(c, j) == <<c.KeyPrefix, "unseal", 0>>

unsealKeyForID(c, j) == <<c.KeyPrefix, "unseal", j>>

rootTokenKey(c) == <<c.KeyPrefix, "root", 0>>

testKey(c) == <<c.KeyPrefix, "test", 0>>

Keys ==
    UNION { {<<kp, "root", 0>>, <<kp, "test", 0>>} \cup { <<kp, "unseal", j>> : j \in 0..MaxShares }
            : kp \in Prefixes }

SecretKeys == { key \in Keys : key[2] \in {"unseal", "root"} }

\* ---------------------------------------------------------------- keystore (kv.Service)
\* Get: the value, "not found" when the key is absent, or any other failure.
KsGetResults(key) ==
    {[res |-> "error", val |-> NoVal]} \cup
    (IF store[key] = NoVal
       THEN {[res |-> "notfound", val |-> NoVal]}
       ELSE {[res |-> "ok", val |-> store[key]]})

\* Set, Test, CheckWriteAccess: success or failure.
KsWriteResults == {"ok", "error"}

\* ---------------------------------------------------------------- vault server (api.Client)
NoVault == [initialized |-> FALSE, sealed |-> TRUE, n |-> 0, t |-> 0, submitted |-> {}]

NoResp == [Keys |-> <<>>, RootToken |-> NoVal]

\* sys/init: fails, or (on an uninitialised vault, with a valid split) generates
\* the shares and the root token; the vault starts sealed.
VaultInitResults(v, n, t) ==
    {[err |-> TRUE, resp |-> NoResp, after |-> vault[v]]} \cup
    (IF ~vault[v].initialized /\ 1 <= t /\ t <= n
       THEN {[err |-> FALSE,
              resp |-> [Keys |-> [j \in 1..n |-> Share(v, j - 1)], RootToken |-> Root(v)],
              after |-> [initialized |-> TRUE, sealed |-> TRUE, n |-> n, t |-> t,
                         submitted |-> {}]]}
       ELSE {})

ValidShare(v, s) == s[1] = "share" /\ s[2] = v /\ s[3] < vault[v].n

\* sys/unseal with one share: fails, or answers {Sealed, Progress}.
VaultUnsealResults(v, s) ==
    {[err |-> TRUE, Sealed |-> TRUE, Progress |-> 0, after |-> vault[v]]} \cup
    (IF ~vault[v].initialized
       THEN {}
     ELSE IF ~vault[v].sealed
       THEN {[err |-> FALSE, Sealed |-> FALSE, Progress |-> 0, after |-> vault[v]]}
     ELSE IF ~ValidShare(v, s)
       THEN {[err |-> FALSE, Sealed |-> TRUE, Progress |-> 0,
              after |-> [vault[v] EXCEPT !.submitted = {}]]}
     ELSE LET sub == vault[v].submitted \cup {s[3]} IN
          IF Cardinality(sub) >= vault[v].t
            THEN {[err |-> FALSE, Sealed |-> FALSE, Progress |-> 0,
                   after |-> [vault[v] EXCEPT !.sealed = FALSE, !.submitted = {}]]}
            ELSE {[err |-> FALSE, Sealed |-> TRUE, Progress |-> Cardinality(sub),
                   after |-> [vault[v] EXCEPT !.submitted = sub]]})

\* sys/seal-status: fails, or answers the Sealed flag.
VaultSealStatusResults(v) ==
    {[err |-> TRUE, Sealed |-> TRUE]} \cup
    (IF vault[v].initialized THEN {[err |-> FALSE, Sealed |-> vault[v].sealed]} ELSE {})

\* ---------------------------------------------------------------- call log
Call(name, key, val, res, old, progress) ==
    [call |-> name, key |-> key, val |-> val, res |-> res, old |-> old, progress |-> progress]

Log(p, e) == calls' = [calls EXCEPT ![p] = Append(@, e)]

Finish(p, r) ==
    /\ pc' = [pc EXCEPT ![p] = "done"]
    /\ result' = [result EXCEPT ![p] = r]

Goto(p, label) ==
    /\ pc' = [pc EXCEPT ![p] = label]
    /\ UNCHANGED result

\* ---------------------------------------------------------------- New + entry of a handler
\* New(k, cl, config): instance p is given the client of vault p.
cl(p) == p

\* Sealed, Unseal and CheckReadWriteAccess read no option but KeyPrefix.
PrefixConfigs ==
    { c \in ValidConfigs : /\ c.SecretShares = 1
                           /\ ~c.OverwriteExisting
                           /\ ~c.StoreRootToken }

\* History: the last Init that returned success, forgotten when another Init
\* is entered.
NoHist == [by |-> 0, cfg |-> NoCfg, keys |-> <<>>, fresh |-> FALSE]

Begin(p, o, first, cs) ==
    /\ pc[p] = "idle"
    /\ nops < MaxOps
    /\ \E c \in cs : cfg' = [cfg EXCEPT ![p] = c]
    /\ op' = [op EXCEPT ![p] = o]
    /\ pc' = [pc EXCEPT ![p] = first]
    /\ pre' = [pre EXCEPT ![p] = [store |-> store, vault |-> vault, hist |-> hist]]
    /\ nops' = nops + 1
    /\ hist' = IF o = "Init" THEN NoHist ELSE hist
    /\ UNCHANGED <<store, vault, i, k, resp, result, calls>>

NoPre ==
    [store |-> [key \in Keys |-> NoVal], vault |-> [v \in Vaults |-> NoVault],
     hist |-> NoHist]

Return(p) ==
    /\ pc[p] = "done"
    /\ pc' = [pc EXCEPT ![p] = "idle"]
    /\ op' = [op EXCEPT ![p] = "none"]
    /\ cfg' = [cfg EXCEPT ![p] = NoCfg]
    /\ i' = [i EXCEPT ![p] = 0]
    /\ k' = [k EXCEPT ![p] = NoVal]
    /\ resp' = [resp EXCEPT ![p] = NoResp]
    /\ result' = [result EXCEPT ![p] = "none"]
    /\ calls' = [calls EXCEPT ![p] = <<>>]
    /\ pre' = [pre EXCEPT ![p] = NoPre]
    /\ hist' = IF op[p] = "Init" /\ result[p] = "nil"
                 THEN [by |-> p, cfg |-> cfg[p], keys |-> resp[p].Keys,
                       fresh |-> \A key \in SecretKeys : pre[p].store[key] = NoVal]
                 ELSE hist
    /\ UNCHANGED <<store, vault, nops>>

\* ---------------------------------------------------------------- Sealed
CallSealed(p) == Begin(p, "Sealed", "sealed_status", PrefixConfigs)

\* Mutant: the zero value is returned instead of resp.Sealed.
SealedReturnZero(r) == "false"

\* return resp.Sealed, nil
SealedReturn(r) == IF r.Sealed THEN "true" ELSE "false"

Sealed(p) ==
    /\ pc[p] = "sealed_status"
    /\ \E r \in VaultSealStatusResults(cl(p)) :
         /\ Log(p, Call("SealStatus", NoKey, NoVal,
                        IF r.err THEN "error" ELSE IF r.Sealed THEN "sealed" ELSE "unsealed",
                        NoVal, 0))
         /\ IF r.err
              THEN Finish(p, "error checking status")
              ELSE Finish(p, SealedReturn(r))
    /\ UNCHANGED <<store, vault, op, cfg, i, k, resp, pre, hist, nops>>

\* ---------------------------------------------------------------- Unseal
CallUnseal(p) == Begin(p, "Unseal", "unseal_get", PrefixConfigs)

\* Mutant: "not found" is not taken as a failure of Get.
GetFailedNotFoundIgnored(r) == r.res = "error"

\* err != nil after keyStore.Get
GetFailed(r) == r.res # "ok"

UnsealGet(p) ==
    /\ pc[p] = "unseal_get"
    /\ LET keyID == unsealKeyForID(cfg[p], i[p]) IN
       \E r \in KsGetResults(keyID) :
         /\ Log(p, Call("Get", keyID, r.val, r.res, NoVal, 0))
         /\ IF GetFailed(r)
              THEN Finish(p, "unable to get key") /\ UNCHANGED k
              ELSE Goto(p, "unseal_submit") /\ k' = [k EXCEPT ![p] = r.val]
    /\ UNCHANGED <<store, vault, op, cfg, i, resp, pre, hist, nops>>

\* Mutant: a Progress of 0 does not end the loop.
UnsealVerdictNoReset(r) ==
    IF ~r.Sealed THEN "nil" ELSE "continue"

\* Mutant: Progress is looked at before Sealed.
UnsealVerdictProgressFirst(r) ==
    IF r.Progress = 0 THEN "failed to unseal vault"
    ELSE IF ~r.Sealed THEN "nil"
    ELSE "continue"

\* What the loop does with a response of the vault.
UnsealVerdict(r) ==
    IF ~r.Sealed THEN "nil"
    ELSE IF r.Progress = 0 THEN "failed to unseal vault"
    ELSE "continue"

UnsealSubmit(p) ==
    /\ pc[p] = "unseal_submit"
    /\ \E r \in VaultUnsealResults(cl(p), k[p]) :
         /\ vault' = [vault EXCEPT ![cl(p)] = r.after]
         /\ Log(p, Call("Unseal", unsealKeyForID(cfg[p], i[p]), k[p],
                        IF r.err THEN "error" ELSE IF r.Sealed THEN "sealed" ELSE "unsealed",
                        NoVal, r.Progress))
         /\ IF r.err
              THEN Finish(p, "fail to send unseal request") /\ UNCHANGED i
            ELSE IF UnsealVerdict(r) = "continue"
              THEN Goto(p, "unseal_get") /\ i' = [i EXCEPT ![p] = @ + 1]
              ELSE Finish(p, UnsealVerdict(r)) /\ UNCHANGED i
    /\ UNCHANGED <<store, op, cfg, k, resp, pre, hist, nops>>

\* ---------------------------------------------------------------- keyStoreNotFound, keyStoreSet
\* Mutant: every key counts as "not found".
keyStoreNotFoundAlways(r) == TRUE

\* Mutant: any failed lookup counts as "not found".
keyStoreNotFoundAnyError(r) == r.res # "ok"

keyStoreNotFound(r) == r.res = "notfound"

\* Mutant: keyStoreSet writes without looking the key up.
SetEntryUnchecked(c, phase) == phase \o "_set"

\* keyStoreSet looks the key up first unless OverwriteExisting.
SetEntry(c, phase) ==
    IF c.OverwriteExisting THEN phase \o "_set" ELSE phase \o "_check"

\* ---------------------------------------------------------------- Init
CallInit(p) == Begin(p, "Init", "init_test", ValidConfigs)

InitTest(p) ==
    /\ pc[p] = "init_test"
    /\ \E r \in KsWriteResults :
         /\ Log(p, Call("Test", testKey(cfg[p]), Probe, r, store[testKey(cfg[p])], 0))
         /\ IF r = "ok"
              THEN /\ store' = [store EXCEPT ![testKey(cfg[p])] = Probe]
                   /\ Goto(p, IF cfg[p].OverwriteExisting THEN "init_request" ELSE "init_precheck")
              ELSE /\ UNCHANGED store
                   /\ Finish(p, "error testing keystore")
    /\ i' = [i EXCEPT ![p] = 1]
    /\ UNCHANGED <<vault, op, cfg, k, resp, pre, hist, nops>>

\* Mutant: only the root key is looked up before initialisation.
InitKeysRootOnly(c) == <<rootTokenKey(c)>>

\* The keys looked up before initialisation.
InitKeys(c) ==
    <<rootTokenKey(c)>> \o [j \in 1..(c.SecretShares + 1) |-> unsealKeyForID(c, j - 1)]

InitPrecheck(p) ==
    /\ pc[p] = "init_precheck"
    /\ LET key == InitKeys(cfg[p])[i[p]] IN
       \E r \in KsGetResults(key) :
         /\ Log(p, Call("Get", key, r.val, r.res, NoVal, 0))
         /\ IF ~keyStoreNotFound(r)
              THEN Finish(p, "error before init") /\ UNCHANGED i
            ELSE IF i[p] < Len(InitKeys(cfg[p]))
              THEN Goto(p, "init_precheck") /\ i' = [i EXCEPT ![p] = @ + 1]
              ELSE Goto(p, "init_request") /\ UNCHANGED i
    /\ UNCHANGED <<store, vault, op, cfg, k, resp, pre, hist, nops>>

\* Mutant: the root token is stored whatever StoreRootToken says.
RootEntryAlways(c) == SetEntry(c, "root")

\* After the shares: the root token, when it is to be stored.
RootEntry(c) == IF c.StoreRootToken THEN SetEntry(c, "root") ELSE "done"

InitRequest(p) ==
    /\ pc[p] = "init_request"
    /\ \E r \in VaultInitResults(cl(p), cfg[p].SecretShares, cfg[p].SecretThreshold) :
         /\ vault' = [vault EXCEPT ![cl(p)] = r.after]
         /\ Log(p, Call("VaultInit", NoKey, NoVal, IF r.err THEN "error" ELSE "ok", NoVal, 0))
         /\ resp' = [resp EXCEPT ![p] = r.resp]
         /\ IF r.err
              THEN Finish(p, "error initialising vault")
            ELSE IF Len(r.resp.Keys) > 0
              THEN Goto(p, SetEntry(cfg[p], "share"))
            ELSE IF RootEntry(cfg[p]) = "done"
              THEN Finish(p, "nil")
              ELSE Goto(p, RootEntry(cfg[p]))
    /\ i' = [i EXCEPT ![p] = 0]
    /\ UNCHANGED <<store, op, cfg, k, pre, hist, nops>>

\* Mutant: the shares are taken from the end of the response.
ShareAtReversed(r, j) == r.Keys[Len(r.Keys) - j]

\* for i, k := range resp.Keys
ShareAt(r, j) == r.Keys[j + 1]

\* Mutant: the error of keyStoreSet is dropped.
SetFailedIgnored(r) == FALSE

\* err != nil after keyStoreSet
SetFailed(r) == r # "ok"

\* keyStoreSet(unsealKeyForID(i), resp.Keys[i]): the lookup.
InitShareCheck(p) ==
    /\ pc[p] = "share_check"
    /\ LET keyID == unsealKeyForID(cfg[p], i[p]) IN
       \E r \in KsGetResults(keyID) :
         /\ Log(p, Call("Get", keyID, r.val, r.res, NoVal, 0))
         /\ IF ~keyStoreNotFound(r)
              THEN Finish(p, "error storing unseal key")
              ELSE Goto(p, "share_set")
    /\ UNCHANGED <<store, vault, op, cfg, i, k, resp, pre, hist, nops>>

\* keyStoreSet(unsealKeyForID(i), resp.Keys[i]): the write; then the next share.
InitShareSet(p) ==
    /\ pc[p] = "share_set"
    /\ LET keyID == unsealKeyForID(cfg[p], i[p])
           val == ShareAt(resp[p], i[p])
       IN
       \E r \in KsWriteResults :
         /\ Log(p, Call("Set", keyID, val, r, store[keyID], 0))
         /\ store' = IF r = "ok" THEN [store EXCEPT ![keyID] = val] ELSE store
         /\ IF SetFailed(r)
              THEN /\ UNCHANGED i
                   /\ Finish(p, "error storing unseal key")
            ELSE /\ IF i[p] + 1 < Len(resp[p].Keys)
                      THEN Goto(p, SetEntry(cfg[p], "share")) /\ i' = [i EXCEPT ![p] = @ + 1]
                    ELSE IF RootEntry(cfg[p]) = "done"
                      THEN Finish(p, "nil") /\ UNCHANGED i
                      ELSE Goto(p, RootEntry(cfg[p])) /\ UNCHANGED i
    /\ UNCHANGED <<vault, op, cfg, k, resp, pre, hist, nops>>

\* keyStoreSet(rootTokenKey, resp.RootToken): the lookup.
InitRootCheck(p) ==
    /\ pc[p] = "root_check"
    /\ LET key == rootTokenKey(cfg[p]) IN
       \E r \in KsGetResults(key) :
         /\ Log(p, Call("Get", key, r.val, r.res, NoVal, 0))
         /\ IF ~keyStoreNotFound(r)
              THEN Finish(p, "error storing root token")
              ELSE Goto(p, "root_set")
    /\ UNCHANGED <<store, vault, op, cfg, i, k, resp, pre, hist, nops>>

\* keyStoreSet(rootTokenKey, resp.RootToken): the write.
InitRootSet(p) ==
    /\ pc[p] = "root_set"
    /\ LET key == rootTokenKey(cfg[p]) IN
       \E r \in KsWriteResults :
         /\ Log(p, Call("Set", key, resp[p].RootToken, r, store[key], 0))
         /\ store' = IF r = "ok" THEN [store EXCEPT ![key] = resp[p].RootToken] ELSE store
         /\ IF SetFailed(r)
              THEN Finish(p, "error storing root token")
              ELSE Finish(p, "nil")
    /\ UNCHANGED <<vault, op, cfg, i, k, resp, pre, hist, nops>>

\* ---------------------------------------------------------------- CheckReadWriteAccess
CallCheckReadWriteAccess(p) == Begin(p, "CheckReadWriteAccess", "check_access", PrefixConfigs)

CheckReadWriteAccess(p) ==
    /\ pc[p] = "check_access"
    /\ \E r \in KsWriteResults :
         /\ Log(p, Call("CheckWriteAccess", NoKey, NoVal, r, NoVal, 0))
         /\ Finish(p, IF r = "ok" THEN "nil" ELSE "read/write access test failed")
    /\ UNCHANGED <<store, vault, op, cfg, i, k, resp, pre, hist, nops>>

\* ---------------------------------------------------------------- specifications
Init ==
    /\ store = [key \in Keys |-> NoVal]
    /\ vault = [v \in Vaults |-> NoVault]
    /\ pc = [p \in Procs |-> "idle"]
    /\ op = [p \in Procs |-> "none"]
    /\ cfg = [p \in Procs |-> NoCfg]
    /\ i = [p \in Procs |-> 0]
    /\ k = [p \in Procs |-> NoVal]
    /\ resp = [p \in Procs |-> NoResp]
    /\ result = [p \in Procs |-> "none"]
    /\ calls = [p \in Procs |-> <<>>]
    /\ pre = [p \in Procs |-> NoPre]
    /\ hist = NoHist
    /\ nops = 0

\* A call is entered while no other call is running (calls serialised by the caller).
Exclusive == \A q \in Procs : pc[q] = "idle"

Enter(p) ==
    \/ CallSealed(p)
    \/ CallUnseal(p)
    \/ CallInit(p)
    \/ CallCheckReadWriteAccess(p)

Step(p) ==
    \/ Sealed(p)
    \/ UnsealGet(p)
    \/ UnsealSubmit(p)
    \/ InitTest(p)
    \/ InitPrecheck(p)
    \/ InitRequest(p)
    \/ InitShareCheck(p)
    \/ InitShareSet(p)
    \/ InitRootCheck(p)
    \/ InitRootSet(p)
    \/ CheckReadWriteAccess(p)
    \/ Return(p)

Next ==
    \/ \E p \in Procs : Exclusive /\ Enter(p)
    \/ \E p \in Procs : Step(p)

Spec == Init /\ [][Next]_vars

\* Bootstrap race: orchestrator instances running Init concurrently against the
\* same keystore and KeyPrefix, each against its own vault server; as many Init
\* calls as there are instances.
InitStep(p) ==
    \/ InitTest(p)
    \/ InitPrecheck(p)
    \/ InitRequest(p)
    \/ InitShareCheck(p)
    \/ InitShareSet(p)
    \/ InitRootCheck(p)
    \/ InitRootSet(p)
    \/ Return(p)

NextConc ==
    \/ \E p \in Procs : nops < Cardinality(Procs) /\ CallInit(p)
    \/ \E p \in Procs : InitStep(p)

SpecConc == Init /\ [][NextConc]_vars

\* ================================================================ properties
Done(p, o) == pc[p] = "done" /\ op[p] = o

\* No keystore or vault call of the running call of p failed in transport.
NoFault(p) == \A a \in 1..Len(calls[p]) : calls[p][a].res # "error"

CallsOf(p, name) == { a \in 1..Len(calls[p]) : calls[p][a].call = name }

UnsealKey(c, j) == <<c.KeyPrefix, "unseal", j>>
RootKey(c) == <<c.KeyPrefix, "root", 0>>

\* C1: after an Init that returns success, for every i in 0..SecretShares-1 the
\* keystore value at {KeyPrefix}-unseal-{i} is the i-th share of the vault's
\* init response (calls serialised by the caller).
C1_InitStoresSharesInOrder ==
    \A p \in Procs :
      (Done(p, "Init") /\ result[p] = "nil") =>
        /\ Len(resp[p].Keys) = cfg[p].SecretShares
        /\ \A j \in 0..(cfg[p].SecretShares - 1) :
             store[UnsealKey(cfg[p], j)] = resp[p].Keys[j + 1]

C1_Witness ==
    \E p \in Procs :
      /\ Done(p, "Init") /\ result[p] = "nil"
      /\ cfg[p].SecretShares = MaxShares
      /\ cfg[p].OverwriteExisting
      /\ \E key \in SecretKeys : pre[p].store[key] # NoVal

\* C2: an Init with OverwriteExisting=false that finds the root key or a
\* checked unseal key already stored, or whose existence lookup fails otherwise
\* than by "not found", fails without a vault-initialisation request and
\* without a Set on an unseal or root key.
PrecheckedKeys(c) == {RootKey(c)} \cup { UnsealKey(c, j) : j \in 0..c.SecretShares }

LookupFailedBeforeInit(p) ==
    \E a \in CallsOf(p, "Get") :
      /\ calls[p][a].res = "error"
      /\ \A b \in 1..(a - 1) : calls[p][b].call # "VaultInit"

C2_InitRefusesExistingKeys ==
    \A p \in Procs :
      ( /\ Done(p, "Init")
        /\ ~cfg[p].OverwriteExisting
        /\ \/ \E key \in PrecheckedKeys(cfg[p]) : pre[p].store[key] # NoVal
           \/ LookupFailedBeforeInit(p) )
      => /\ result[p] \in {"error testing keystore", "error before init"}
         /\ CallsOf(p, "VaultInit") = {}
         /\ CallsOf(p, "Set") = {}
         /\ \A key \in SecretKeys : store[key] = pre[p].store[key]
         /\ vault = pre[p].vault

C2_Witness ==
    \E p \in Procs :
      /\ Done(p, "Init")
      /\ ~cfg[p].OverwriteExisting
      /\ pre[p].store[RootKey(cfg[p])] # NoVal
      /\ result[p] = "error before init"

\* C3: when the vault is sealed with threshold t and the keystore holds t valid
\* shares at unseal-0 .. unseal-(t-1), an Unseal whose calls all answer returns
\* success, leaves the vault unsealed and makes at most t keystore Gets.
SharesAvailable(p) ==
    LET v == pre[p].vault[cl(p)] IN
    /\ v.initialized /\ v.sealed
    /\ \A j \in 0..(v.t - 1) :
         LET s == pre[p].store[UnsealKey(cfg[p], j)] IN
         s[1] = "share" /\ s[2] = cl(p) /\ s[3] < v.n
    /\ \A j1, j2 \in 0..(v.t - 1) :
         j1 # j2 => pre[p].store[UnsealKey(cfg[p], j1)] # pre[p].store[UnsealKey(cfg[p], j2)]

C3_UnsealAtThreshold ==
    \A p \in Procs :
      (Done(p, "Unseal") /\ SharesAvailable(p) /\ NoFault(p)) =>
        /\ result[p] = "nil"
        /\ ~vault[cl(p)].sealed
        /\ Cardinality(CallsOf(p, "Get")) <= pre[p].vault[cl(p)].t

C3_Witness ==
    \E p \in Procs :
      /\ Done(p, "Unseal") /\ SharesAvailable(p) /\ NoFault(p)
      /\ pre[p].vault[cl(p)].t = MaxShares
      /\ pre[p].store[UnsealKey(cfg[p], MaxShares)] = NoVal
      /\ Cardinality(CallsOf(p, "Get")) = MaxShares
      /\ ~vault[cl(p)].sealed

\* C4 (as stated): Unseal returns a terminal error the first time a submitted
\* share's response reports Progress == 0, and neither fetches nor submits
\* anything afterwards.
C4_ProgressZeroIsError ==
    \A p \in Procs : \A a \in CallsOf(p, "Unseal") :
      (calls[p][a].res # "error" /\ calls[p][a].progress = 0) =>
        /\ pc[p] = "done"
        /\ result[p] = "failed to unseal vault"
        /\ a = Len(calls[p])

\* C4 (amended): Unseal returns a terminal error the first time a submitted
\* share's response reports Sealed == true and Progress == 0: that index is
\* fetched and submitted once, and nothing is fetched or submitted afterwards.
C4_SealedProgressZeroIsError ==
    \A p \in Procs : \A a \in CallsOf(p, "Unseal") :
      (calls[p][a].res = "sealed" /\ calls[p][a].progress = 0) =>
        /\ pc[p] = "done"
        /\ result[p] = "failed to unseal vault"
        /\ a = Len(calls[p])
        /\ \A b \in 1..Len(calls[p]) :
             (b # a /\ calls[p][b].key = calls[p][a].key) =>
               (b = a - 1 /\ calls[p][b].call = "Get")

C4_Witness ==
    \E p \in Procs : \E a \in CallsOf(p, "Unseal") :
      /\ calls[p][a].res = "sealed" /\ calls[p][a].progress = 0
      /\ Done(p, "Unseal")
      /\ pre[p].store[UnsealKey(cfg[p], 1)] # NoVal

\* C5: an Init with StoreRootToken=false never issues a Set on the root key,
\* whatever OverwriteExisting is and however the call ends.
C5_NoRootWriteUnlessStoreRootToken ==
    \A p \in Procs :
      (op[p] = "Init" /\ ~cfg[p].StoreRootToken) =>
        \A a \in CallsOf(p, "Set") : calls[p][a].key # RootKey(cfg[p])

C5_Witness ==
    \E p \in Procs :
      /\ Done(p, "Init") /\ result[p] = "nil"
      /\ ~cfg[p].StoreRootToken
      /\ cfg[p].OverwriteExisting
      /\ store[RootKey(cfg[p])] # NoVal
      /\ CallsOf(p, "Set") # {}

\* C6: when the keystore Get for index i fails for any reason ("not found"
\* included), Unseal returns an error at once and submits no share for index i
\* or a later one; when the Get for unseal-0 fails, it has submitted nothing.
C6_GetFailureEndsUnseal ==
    \A p \in Procs : \A a \in CallsOf(p, "Get") :
      (op[p] = "Unseal" /\ calls[p][a].res # "ok") =>
        /\ pc[p] = "done"
        /\ result[p] = "unable to get key"
        /\ a = Len(calls[p])
        /\ \A b \in CallsOf(p, "Unseal") : calls[p][b].key[3] < calls[p][a].key[3]
        /\ (calls[p][a].key = UnsealKey(cfg[p], 0) => CallsOf(p, "Unseal") = {})

C6_Witness ==
    \E p \in Procs : \E a \in CallsOf(p, "Get") :
      /\ Done(p, "Unseal")
      /\ calls[p][a].res = "notfound"
      /\ calls[p][a].key = UnsealKey(cfg[p], 1)
      /\ CallsOf(p, "Unseal") # {}
      /\ result[p] = "unable to get key"

\* C7: round trip.  After a successful Init on a fresh keystore with
\* SecretShares=n and SecretThreshold=t, a later Unseal of the sealed vault,
\* given nothing but KeyPrefix and with all its calls answering, reads the keys
\* Init wrote in index order 0,1,.., gets the shares of the init response in
\* that order, and returns success after exactly t Gets and t submits.
AfterFreshInit(p) ==
    /\ Done(p, "Unseal")
    /\ hist.by = p /\ hist.fresh
    /\ hist.cfg.KeyPrefix = cfg[p].KeyPrefix
    /\ pre[p].vault[cl(p)].sealed
    /\ NoFault(p)

C7_InitUnsealRoundTrip ==
    \A p \in Procs :
      AfterFreshInit(p) =>
        LET t == hist.cfg.SecretThreshold IN
        /\ result[p] = "nil"
        /\ Len(calls[p]) = 2 * t
        /\ \A j \in 0..(t - 1) :
             /\ calls[p][2 * j + 1].call = "Get"
             /\ calls[p][2 * j + 1].key = UnsealKey(hist.cfg, j)
             /\ calls[p][2 * j + 1].val = hist.keys[j + 1]
             /\ calls[p][2 * j + 2].call = "Unseal"
             /\ calls[p][2 * j + 2].val = hist.keys[j + 1]
        /\ ~vault[cl(p)].sealed

C7_Witness ==
    \E p \in Procs :
      /\ AfterFreshInit(p)
      /\ hist.cfg.SecretShares = MaxShares
      /\ hist.cfg.SecretThreshold = MaxShares
      /\ result[p] = "nil"

\* C8: a failed write of share j is not rolled back: Init returns an error, the
\* shares 0..j-1 written by this call stay in the keystore with their new
\* values, no share above j and no root token is written, and the vault has
\* been initialised.
ShareWriteFailed(p) ==
    /\ Done(p, "Init")
    /\ result[p] = "error storing unseal key"

FailedIndex(p) == calls[p][Len(calls[p])].key[3]

C8_PartialInitNotRolledBack ==
    \A p \in Procs :
      ShareWriteFailed(p) =>
        LET j == FailedIndex(p) IN
        /\ vault[cl(p)].initialized /\ ~pre[p].vault[cl(p)].initialized
        /\ \A m \in 0..(j - 1) :
             /\ store[UnsealKey(cfg[p], m)] = resp[p].Keys[m + 1]
             /\ \E a \in CallsOf(p, "Set") :
                  /\ calls[p][a].key = UnsealKey(cfg[p], m)
                  /\ calls[p][a].val = resp[p].Keys[m + 1]
                  /\ calls[p][a].res = "ok"
        /\ \A a \in CallsOf(p, "Set") :
             calls[p][a].key[2] = "unseal" /\ calls[p][a].key[3] <= j
        /\ \A m \in (j + 1)..MaxShares :
             store[UnsealKey(cfg[p], m)] = pre[p].store[UnsealKey(cfg[p], m)]
        /\ store[RootKey(cfg[p])] = pre[p].store[RootKey(cfg[p])]

C8_Witness ==
    \E p \in Procs :
      /\ ShareWriteFailed(p)
      /\ FailedIndex(p) = MaxShares - 1
      /\ calls[p][Len(calls[p])].call = "Set"
      /\ store[UnsealKey(cfg[p], 0)] = resp[p].Keys[1]
      /\ pre[p].store[UnsealKey(cfg[p], 0)] # resp[p].Keys[1]

\* C9: when StoreRootToken=true and persisting the root token fails, Init
\* returns an error and every share unseal-0 .. unseal-(SecretShares-1) written
\* earlier in the call is still in the keystore with the value the vault gave.
RootWriteFailed(p) ==
    /\ Done(p, "Init")
    /\ cfg[p].StoreRootToken
    /\ calls[p][Len(calls[p])].key = RootKey(cfg[p])
    /\ calls[p][Len(calls[p])].res # "notfound"
    /\ CallsOf(p, "VaultInit") # {}

C9_RootFailureKeepsShares ==
    \A p \in Procs :
      RootWriteFailed(p) /\ result[p] # "nil" =>
        /\ result[p] = "error storing root token"
        /\ \A j \in 0..(cfg[p].SecretShares - 1) :
             store[UnsealKey(cfg[p], j)] = resp[p].Keys[j + 1]
        /\ store[RootKey(cfg[p])] = pre[p].store[RootKey(cfg[p])]

C9_Witness ==
    \E p \in Procs :
      /\ RootWriteFailed(p)
      /\ result[p] = "error storing root token"
      /\ calls[p][Len(calls[p])].call = "Set"
      /\ cfg[p].SecretShares = MaxShares

\* C10: the overwrite protection of concurrent Init calls is not atomic.  An
\* instance with OverwriteExisting=false writes a key only right after its own
\* lookup of that key answered "not found" (and after the same key passed the
\* check made before initialisation); the witness is the interleaving in which
\* two such instances both pass and the second overwrites the value of the first.
C10_WriteFollowsOwnLookup ==
    \A p \in Procs : \A a \in CallsOf(p, "Set") :
      ~cfg[p].OverwriteExisting =>
        /\ a > 1
        /\ calls[p][a - 1].call = "Get"
        /\ calls[p][a - 1].key = calls[p][a].key
        /\ calls[p][a - 1].res = "notfound"
        /\ \E b \in 1..(a - 2) :
             /\ calls[p][b].call = "Get"
             /\ calls[p][b].key = calls[p][a].key
             /\ calls[p][b].res = "notfound"
             /\ \E c \in (b + 1)..(a - 2) : calls[p][c].call = "VaultInit"

C10_Witness ==
    \E p, q \in Procs :
      /\ p # q
      /\ op[p] = "Init" /\ op[q] = "Init"
      /\ ~cfg[p].OverwriteExisting /\ ~cfg[q].OverwriteExisting
      /\ \E a \in CallsOf(p, "Set"), b \in CallsOf(q, "Set") :
           /\ calls[p][a].key = calls[q][b].key
           /\ calls[p][a].key \in SecretKeys
           /\ calls[p][a].res = "ok" /\ calls[q][b].res = "ok"
           /\ calls[p][a].old = NoVal
           /\ calls[q][b].old = calls[p][a].val

\* C11: Init is idempotent by refusal.  With OverwriteExisting=false, an Init
\* entered after an Init that returned success (same keystore and KeyPrefix,
\* SecretShares >= 1) returns an error, makes no vault-initialisation request,
\* and leaves every unseal key and the root key with the value the first Init
\* stored.
SecondInit(p) ==
    /\ Done(p, "Init")
    /\ ~cfg[p].OverwriteExisting
    /\ pre[p].hist.by # 0
    /\ pre[p].hist.cfg.KeyPrefix = cfg[p].KeyPrefix
    /\ pre[p].hist.cfg.SecretShares >= 1

C11_SecondInitRefused ==
    \A p \in Procs :
      SecondInit(p) =>
        /\ result[p] \in {"error testing keystore", "error before init"}
        /\ CallsOf(p, "VaultInit") = {}
        /\ vault = pre[p].vault
        /\ \A j \in 0..(pre[p].hist.cfg.SecretShares - 1) :
             store[UnsealKey(cfg[p], j)] = pre[p].hist.keys[j + 1]
        /\ \A key \in SecretKeys : store[key] = pre[p].store[key]
        /\ (pre[p].hist.cfg.StoreRootToken =>
              store[RootKey(cfg[p])] = <<"root", pre[p].hist.by, 0>>)

C11_Witness ==
    \E p \in Procs :
      /\ SecondInit(p)
      /\ pre[p].hist.by # p
      /\ ~pre[p].hist.cfg.StoreRootToken
      /\ result[p] = "error before init"

\* C12: with OverwriteExisting=false, the keys Init looks up before requesting
\* initialisation are exactly the keys it goes on to write, the root key and
\* the unseal keys 0..SecretShares-1: no other key is looked up, so the presence
\* of a key Init would not write cannot abort it.
PrecheckCalls(p) ==
    { a \in CallsOf(p, "Get") : \A b \in 1..a : calls[p][b].call # "VaultInit" }

WrittenKeys(c) == {RootKey(c)} \cup { UnsealKey(c, j) : j \in 0..(c.SecretShares - 1) }

C12_PrecheckedAreWrittenKeys ==
    \A p \in Procs :
      (op[p] = "Init" /\ ~cfg[p].OverwriteExisting) =>
        \A a \in PrecheckCalls(p) : calls[p][a].key \in WrittenKeys(cfg[p])

\* C13: when only the consecutive keys unseal-0 .. unseal-(k-1) exist and every
\* keystore and vault call returns, an Unseal call terminates: it makes at most
\* k+1 Gets and at most k submits, every step adds a call, a step is possible
\* until it returns, and without an unsealed response it returns an error.
RECURSIVE Consecutive(_, _, _)
Consecutive(st, c, j) ==
    IF j > MaxShares \/ st[UnsealKey(c, j)] = NoVal THEN j ELSE Consecutive(st, c, j + 1)

C13_UnsealTerminates ==
    \A p \in Procs :
      op[p] = "Unseal" =>
        LET kk == Consecutive(pre[p].store, cfg[p], 0) IN
        /\ Cardinality(CallsOf(p, "Get")) <= kk + 1
        /\ Cardinality(CallsOf(p, "Unseal")) <= kk
        /\ Len(calls[p]) = Cardinality(CallsOf(p, "Get")) + Cardinality(CallsOf(p, "Unseal"))
        /\ (pc[p] = "unseal_get" => Len(calls[p]) = 2 * i[p] /\ ENABLED UnsealGet(p))
        /\ (pc[p] = "unseal_submit" => Len(calls[p]) = 2 * i[p] + 1 /\ ENABLED UnsealSubmit(p))
        /\ pc[p] \in {"unseal_get", "unseal_submit", "done"}
        /\ ( /\ pc[p] = "done"
             /\ \A a \in CallsOf(p, "Unseal") : calls[p][a].res # "unsealed" )
           => result[p] \notin {"nil", "none"}

C13_Witness ==
    \E p \in Procs :
      LET kk == Consecutive(pre[p].store, cfg[p], 0) IN
      /\ Done(p, "Unseal")
      /\ kk >= 1
      /\ Cardinality(CallsOf(p, "Get")) = kk + 1
      /\ Cardinality(CallsOf(p, "Unseal")) = kk
      /\ calls[p][Len(calls[p])].res = "notfound"
      /\ result[p] = "unable to get key"

\* C14: in an Init with OverwriteExisting=false and no concurrent writer, a Set
\* on an unseal or root key happens only when the Get right before it answered
\* "not found" for that key, it never replaces a stored value, and a key found
\* present or a failing lookup at write time ends Init with an error.
WriteLookups(p) ==
    { a \in CallsOf(p, "Get") : \E b \in 1..(a - 1) : calls[p][b].call = "VaultInit" }

C14_NoOverwriteWithoutFlag ==
    \A p \in Procs :
      (op[p] = "Init" /\ ~cfg[p].OverwriteExisting) =>
        /\ \A a \in CallsOf(p, "Set") :
             /\ calls[p][a].key \in SecretKeys
             /\ calls[p][a].old = NoVal
             /\ pre[p].store[calls[p][a].key] = NoVal
             /\ a - 1 \in WriteLookups(p)
             /\ calls[p][a - 1].key = calls[p][a].key
             /\ calls[p][a - 1].res = "notfound"
        /\ \A a \in WriteLookups(p) :
             calls[p][a].res # "notfound" =>
               /\ pc[p] = "done"
               /\ a = Len(calls[p])
               /\ result[p] \in {"error storing unseal key", "error storing root token"}
        /\ \A key \in SecretKeys :
             pre[p].store[key] # NoVal => store[key] = pre[p].store[key]

C14_Witness ==
    \E p \in Procs :
      /\ Done(p, "Init") /\ ~cfg[p].OverwriteExisting
      /\ \E a \in WriteLookups(p) : calls[p][a].res = "error" /\ calls[p][a].key[3] = 1
      /\ \E a \in CallsOf(p, "Set") : calls[p][a].res = "ok"
      /\ pre[p].store[UnsealKey(cfg[p], MaxShares)] = NoVal

\* C15: Unseal returns success exactly when a submit response of the call
\* reported Sealed == false, and it returns at the first such response whatever
\* its Progress is (the Sealed check comes before the Progress == 0 check).
C15_SuccessIffUnsealed ==
    \A p \in Procs :
      op[p] = "Unseal" =>
        /\ \A a \in CallsOf(p, "Unseal") :
             calls[p][a].res = "unsealed" =>
               /\ pc[p] = "done"
               /\ result[p] = "nil"
               /\ a = Len(calls[p])
        /\ (pc[p] = "done" /\ result[p] = "nil") =>
             /\ calls[p] # <<>>
             /\ calls[p][Len(calls[p])].call = "Unseal"
             /\ calls[p][Len(calls[p])].res = "unsealed"
        /\ pc[p] = "done" => result[p] # "none"

C15_Witness ==
    \E p \in Procs :
      /\ Done(p, "Unseal") /\ result[p] = "nil"
      /\ Cardinality(CallsOf(p, "Unseal")) >= 2
      /\ pre[p].vault[cl(p)].sealed
      /\ calls[p][Len(calls[p])].res = "unsealed"
      /\ calls[p][Len(calls[p])].progress = 0

\* C16: the calls of Init are strictly ordered: the probe on {KeyPrefix}-test is
\* first; the vault-initialisation request comes only after the probe succeeded
\* and, when OverwriteExisting=false, after every existence check answered
\* "not found"; shares are written only after that request succeeded, in
\* ascending index order; the root token is written only after all shares were
\* written; a failure at any step is the last call of Init.
StepFailed(e) ==
    \/ e.res = "error"
    \/ e.call = "Get" /\ e.res # "notfound"

ShareSets(p) == { a \in CallsOf(p, "Set") : calls[p][a].key[2] = "unseal" }

C16_InitCallOrder ==
    \A p \in Procs :
      op[p] = "Init" =>
        /\ calls[p] # <<>> =>
             /\ calls[p][1].call = "Test"
             /\ calls[p][1].key = <<cfg[p].KeyPrefix, "test", 0>>
             /\ CallsOf(p, "Test") = {1}
        /\ \A a \in CallsOf(p, "VaultInit") :
             /\ calls[p][1].res = "ok"
             /\ CallsOf(p, "VaultInit") = {a}
             /\ \A b \in 2..(a - 1) : calls[p][b].call = "Get" /\ calls[p][b].res = "notfound"
             /\ ~cfg[p].OverwriteExisting =>
                  \A key \in WrittenKeys(cfg[p]) : \E b \in 2..(a - 1) : calls[p][b].key = key
             /\ cfg[p].OverwriteExisting => a = 2
        /\ \A a \in CallsOf(p, "Set") :
             /\ \E b \in 1..(a - 1) : calls[p][b].call = "VaultInit" /\ calls[p][b].res = "ok"
             /\ calls[p][a].key \in WrittenKeys(cfg[p])
        /\ \A a \in ShareSets(p) :
             LET j == calls[p][a].key[3] IN
             /\ calls[p][a].val = resp[p].Keys[j + 1]
             /\ \A m \in 0..(j - 1) : \E b \in ShareSets(p) :
                  b < a /\ calls[p][b].key[3] = m /\ calls[p][b].res = "ok"
             /\ \A b \in ShareSets(p) : b < a => calls[p][b].key[3] < j
        /\ \A a \in CallsOf(p, "Set") :
             calls[p][a].key = RootKey(cfg[p]) =>
               /\ cfg[p].StoreRootToken
               /\ calls[p][a].val = resp[p].RootToken
               /\ \A m \in 0..(cfg[p].SecretShares - 1) : \E b \in ShareSets(p) :
                    b < a /\ calls[p][b].key[3] = m /\ calls[p][b].res = "ok"
        /\ \A a \in 1..Len(calls[p]) :
             StepFailed(calls[p][a]) =>
               /\ a = Len(calls[p])
               /\ pc[p] = "done"
               /\ result[p] \notin {"nil", "none"}

C16_Witness ==
    \E p \in Procs :
      /\ Done(p, "Init") /\ result[p] = "nil"
      /\ ~cfg[p].OverwriteExisting /\ cfg[p].StoreRootToken
      /\ cfg[p].SecretShares = MaxShares
      /\ Cardinality(ShareSets(p)) = MaxShares
      /\ calls[p][Len(calls[p])].key = RootKey(cfg[p])

\* C17: within one Unseal call nothing is retried: the indexes are visited in
\* increasing order from 0, each is fetched at most once and submitted at most
\* once, Get(i) comes before Submit(i), Submit(i) before Get(i+1), and a failed
\* vault submit ends the call with an error without a further Get or submit.
C17_UnsealNoRetry ==
    \A p \in Procs :
      op[p] = "Unseal" =>
        /\ \A a \in 1..Len(calls[p]) :
             /\ calls[p][a].key = UnsealKey(cfg[p], (a - 1) \div 2)
             /\ calls[p][a].call = (IF a % 2 = 1 THEN "Get" ELSE "Unseal")
             /\ (a % 2 = 0) =>
                  /\ calls[p][a - 1].res = "ok"
                  /\ calls[p][a].val = calls[p][a - 1].val
             /\ (a % 2 = 1 /\ a > 1) =>
                  /\ calls[p][a - 1].res = "sealed"
                  /\ calls[p][a - 1].progress > 0
        /\ \A a \in CallsOf(p, "Unseal") :
             calls[p][a].res = "error" =>
               /\ a = Len(calls[p])
               /\ pc[p] = "done"
               /\ result[p] = "fail to send unseal request"

C17_Witness ==
    \E p \in Procs :
      /\ Done(p, "Unseal")
      /\ Len(calls[p]) = 4
      /\ calls[p][4].res = "error"
      /\ result[p] = "fail to send unseal request"

\* C18: Sealed, Unseal and CheckReadWriteAccess leave the secrets alone: none
\* issues a Set on an unseal or root key or a vault-initialisation request;
\* Sealed makes no keystore call and returns the Sealed flag the vault reports
\* (or an error when the status call fails); CheckReadWriteAccess makes no
\* vault call.
C18_ReadOnlyHandlers ==
    \A p \in Procs :
      /\ op[p] \in {"Sealed", "Unseal", "CheckReadWriteAccess"} =>
           /\ CallsOf(p, "Set") = {}
           /\ CallsOf(p, "VaultInit") = {}
           /\ CallsOf(p, "Test") = {}
           /\ \A key \in SecretKeys : store[key] = pre[p].store[key]
           /\ vault[cl(p)].initialized = pre[p].vault[cl(p)].initialized
      /\ op[p] = "Sealed" =>
           /\ \A a \in 1..Len(calls[p]) : calls[p][a].call = "SealStatus"
           /\ Len(calls[p]) <= 1
           /\ vault = pre[p].vault
           /\ pc[p] = "done" =>
                /\ Len(calls[p]) = 1
                /\ result[p] =
                     (IF calls[p][1].res = "error" THEN "error checking status"
                      ELSE IF vault[cl(p)].sealed THEN "true" ELSE "false")
                /\ calls[p][1].res # "error" =>
                     calls[p][1].res = (IF vault[cl(p)].sealed THEN "sealed" ELSE "unsealed")
      /\ op[p] = "CheckReadWriteAccess" =>
           /\ \A a \in 1..Len(calls[p]) : calls[p][a].call = "CheckWriteAccess"
           /\ Len(calls[p]) <= 1
           /\ vault = pre[p].vault
           /\ pc[p] = "done" =>
                /\ Len(calls[p]) = 1
                /\ result[p] =
                     (IF calls[p][1].res = "ok" THEN "nil" ELSE "read/write access test failed")

C18_Witness ==
    \E p \in Procs :
      /\ Done(p, "Sealed")
      /\ result[p] = "true"
      /\ vault[cl(p)].initialized
      /\ \E key \in SecretKeys : store[key] # NoVal

====
